---- MODULE Spec2Model ----
(***************************************************************************)
(* Model of sbin/system-setup.py: the command line is parsed, a            *)
(* RedisModuleRSSetup is constructed for the detected host, and setup()    *)
(* calls the phase methods common_first, <family phase>, common_last, each *)
(* of which issues its installer actions one after the other.              *)
(***************************************************************************)
EXTENDS Integers, Sequences, FiniteSets, TLC

\* Number of consecutive invocations of the script on one host.
MaxRuns == 2

(***************************************************************************)
(* Hosts                                                                   *)
(***************************************************************************)

\* Operating systems the provisioner has a family phase for.
Families == {"debian", "redhat", "fedora", "macos"}

\* What the running system reports: os id, distribution nick, machine.
Hosts ==
    { [os |-> "debian",  osnick |-> "bullseye", machine |-> m] : m \in {"x86_64", "aarch64"} }
    \cup { [os |-> "redhat",  osnick |-> n, machine |-> m] :
                n \in {"centos7", "ol8"}, m \in {"x86_64", "aarch64"} }
    \cup { [os |-> "fedora",  osnick |-> "fedora33", machine |-> m] : m \in {"x86_64", "aarch64"} }
    \cup { [os |-> "macos",   osnick |-> "catalina", machine |-> m] : m \in {"x86_64", "arm64"} }
    \cup { [os |-> "freebsd", osnick |-> "freebsd13", machine |-> "x86_64"],
           [os |-> "plan9",   osnick |-> "plan9", machine |-> "x86_64"] }

\* platform.is_arm()
is_arm(machine) == machine \in {"aarch64", "arm64"}

\* The host's OS family is not one the provisioner knows.
DetectionError(h) == h.os \notin Families

\* detect_host: unrecognized families degrade to "other".
detect_host(h) ==
    [ family |-> IF DetectionError(h) THEN "other" ELSE h.os,
      arch   |-> IF is_arm(h.machine) THEN "arm" ELSE "non-arm",
      osnick |-> h.osnick ]

NoProfile == [family |-> "none", arch |-> "none", osnick |-> "none"]

(***************************************************************************)
(* Command line (argparse)                                                 *)
(***************************************************************************)

\* Tokens are written as sequences of one-character strings.
OptN    == <<"-", "n">>
OptNop  == <<"-", "-", "n", "o", "p">>
OptH    == <<"-", "h">>
OptHelp == <<"-", "-", "h", "e", "l", "p">>

TokNo   == <<"-", "-", "n", "o">>
TokNoOp == <<"-", "-", "n", "o", "-", "o", "p">>
TokX    == <<"-", "x">>

\* Command lines tried: no argument, or one token.
Argvs == { <<>> } \cup { <<t>> : t \in {OptN, OptNop, OptH, OptHelp, TokNo, TokNoOp, TokX} }

IsPrefix(s, t) == Len(s) <= Len(t) /\ SubSeq(t, 1, Len(s)) = s

\* parser.add_argument('-n', '--nop', action="store_true"), plus argparse's -h/--help
parser == [ nop |-> {OptN, OptNop}, help |-> {OptH, OptHelp} ]

Dests == {"nop", "help"}

OptionStrings == parser.nop \cup parser.help

DestOf(o) == CHOOSE d \in Dests : o \in parser[d]

\* The option a token selects: an exact option string, or the single long
\* option the token abbreviates; "error" otherwise.
Resolve(tok) ==
    IF tok \in OptionStrings THEN DestOf(tok)
    ELSE IF Len(tok) >= 2 /\ tok[1] = "-" /\ tok[2] = "-"
         THEN LET m == { o \in OptionStrings : IsPrefix(tok, o) }
              IN  IF Cardinality(m) = 1 THEN DestOf(CHOOSE o \in m : TRUE) ELSE "error"
         ELSE "error"

\* Variant: only the short option -n is declared.
parse_args_shortOnly(argv) ==
    IF argv = <<>> THEN [status |-> "ok", nop |-> FALSE]
    ELSE CASE argv[1] = OptN               -> [status |-> "ok",    nop |-> TRUE]
           [] argv[1] \in {OptH, OptHelp} -> [status |-> "help",  nop |-> FALSE]
           [] OTHER                        -> [status |-> "error", nop |-> FALSE]

\* parser.parse_args(): status "ok" with args.nop, or an exit ("help": 0, "error": 2)
parse_args(argv) ==
    IF argv = <<>> THEN [status |-> "ok", nop |-> FALSE]
    ELSE LET d == Resolve(argv[1])
         IN  CASE d = "nop"  -> [status |-> "ok",    nop |-> TRUE]
               [] d = "help" -> [status |-> "help",  nop |-> FALSE]
               [] OTHER      -> [status |-> "error", nop |-> FALSE]

(***************************************************************************)
(* Phase methods of RedisModuleRSSetup: the actions each issues, in order  *)
(***************************************************************************)

\* Variant: tar is installed after getcmake.
common_first_tarLast(osnick) ==
    << "install_downloaders", "install git", "run bin/enable-utf8",
       "run bin/getclang --modern", "run bin/getrust",
       "run bin/getcmake --usr" >>
    \o (IF osnick = "ol8" THEN << "install tar" >> ELSE << >>)

\* Variant: getrust is issued before getclang.
common_first_rustFirst(osnick) ==
    << "install_downloaders", "install git", "run bin/enable-utf8",
       "run bin/getrust", "run bin/getclang --modern" >>
    \o (IF osnick = "ol8" THEN << "install tar" >> ELSE << >>)
    \o << "run bin/getcmake --usr" >>

\* common_first: tar is installed on ol8 only, between getrust and getcmake.
common_first(osnick) ==
    << "install_downloaders", "install git", "run bin/enable-utf8",
       "run bin/getclang --modern", "run bin/getrust" >>
    \o (IF osnick = "ol8" THEN << "install tar" >> ELSE << >>)
    \o << "run bin/getcmake --usr" >>

\* Variant: the redhat form of getgcc.
debian_compat_modern == << "run bin/getgcc --modern" >>

debian_compat == << "run bin/getgcc" >>

redhat_compat(arm) ==
    << "install redhat-lsb-core", "run bin/getgcc --modern" >>
    \o (IF ~arm THEN << "install_linux_gnu_tar" >> ELSE << >>)

fedora == << "run bin/getgcc" >>

macos == << "install_gnu_utils", "run bin/getredis -v 6" >>

common_last == << "pip_install toml" >>

FamilyPhases == {"debian_compat", "redhat_compat", "fedora", "macos"}

\* The family phase of a family.
PhaseOf(family) ==
    CASE family = "debian" -> "debian_compat"
      [] family = "redhat" -> "redhat_compat"
      [] family = "fedora" -> "fedora"
      [] family = "macos"  -> "macos"
      [] OTHER             -> "none"

\* The actions a phase method issues on a host with the given profile.
PhaseActions(name, profile) ==
    CASE name = "common_first"  -> common_first(profile.osnick)
      [] name = "debian_compat" -> debian_compat
      [] name = "redhat_compat" -> redhat_compat(profile.arch = "arm")
      [] name = "fedora"        -> fedora
      [] name = "macos"         -> macos
      [] name = "common_last"   -> common_last
      [] OTHER                  -> << >>

Phase(name, profile) == [name |-> name, actions |-> PhaseActions(name, profile)]

\* Variant: the debian phase is called on every host.
build_plan_allFamilies(profile) ==
    << Phase("common_first", profile), Phase("debian_compat", profile),
       Phase(PhaseOf(profile.family), profile), Phase("common_last", profile) >>

\* Variant: an unrecognized host gets no plan.
build_plan_abortOther(profile) ==
    IF profile.family = "other" THEN << >>
    ELSE << Phase("common_first", profile), Phase(PhaseOf(profile.family), profile),
            Phase("common_last", profile) >>

\* build_plan: common_first, the family's phase if there is one, common_last.
build_plan(profile) ==
    << Phase("common_first", profile) >>
    \o (IF profile.family \in Families
        THEN << Phase(PhaseOf(profile.family), profile) >> ELSE << >>)
    \o << Phase("common_last", profile) >>

RECURSIVE Flatten(_)
\* The actions of a plan, phase after phase.
Flatten(p) == IF p = << >> THEN << >> ELSE Head(p).actions \o Flatten(Tail(p))

RECURSIVE PhaseTags(_)
\* For each action of a plan, the phase that issues it.
PhaseTags(p) ==
    IF p = << >> THEN << >>
    ELSE [i \in 1..Len(Head(p).actions) |-> Head(p).name] \o PhaseTags(Tail(p))

(***************************************************************************)
(* State                                                                   *)
(***************************************************************************)

VARIABLES
    host,       \* the machine the script runs on
    installed,  \* host state: the actions that have taken effect on the host
    run,        \* number of the current invocation, 1..MaxRuns
    pc,         \* "start", "parsed", "setup", "done"
    argv,       \* the command line of the current invocation
    args,       \* parse_args() result
    nop,        \* the Setup object's no-op flag
    profile,    \* the detected host profile
    plan,       \* the phases the run follows
    idx,        \* number of actions of the plan dealt with so far
    running,    \* an action has been launched and has not returned
    log,        \* no-op mode: the actions recorded as "would run"
    ran,        \* the actions launched on the host, in launch order
    completed,  \* the actions that returned successfully, in order
    failed,     \* the actions that returned a non-zero status
    error,      \* "none", or the action the raised ActionError names
    terminal,   \* "none", "executed", "aborted", "usage", "help"
    exitcode,   \* process exit code, -1 while running
    before,     \* host state when the invocation started
    history     \* one record per finished invocation

vars == << host, installed, run, pc, argv, args, nop, profile, plan, idx, running,
           log, ran, completed, failed, error, terminal, exitcode, before, history >>

NoArgs == [status |-> "none", nop |-> FALSE]

Init ==
    /\ host \in Hosts
    /\ installed = {}
    /\ run = 1
    /\ pc = "start"
    /\ argv = << >>
    /\ args = NoArgs
    /\ nop = FALSE
    /\ profile = NoProfile
    /\ plan = << >>
    /\ idx = 0
    /\ running = FALSE
    /\ log = << >>
    /\ ran = << >>
    /\ completed = << >>
    /\ failed = {}
    /\ error = "none"
    /\ terminal = "none"
    /\ exitcode = -1
    /\ before = {}
    /\ history = << >>

(***************************************************************************)
(* Helpers of the run                                                      *)
(***************************************************************************)

\* Variant: the flag is not handed on.
RedisModuleRSSetup_init_ignoreFlag(a) == FALSE

\* RedisModuleRSSetup.__init__: the no-op flag handed to paella.Setup
RedisModuleRSSetup_init(a) == a.nop

\* Runner: in no-op mode a command is reported and not executed.
SkipsExecution(flag) == flag

\* Runner: a non-zero status of a command raises.
Raises(rc) == rc # 0

\* Variant: an action failure is caught at module level.
ExitCode_swallow(t) ==
    CASE t = "executed" -> 0
      [] t = "aborted"  -> 0
      [] t = "help"     -> 0
      [] t = "usage"    -> 2
      [] OTHER          -> -1

\* The exit code of the script for each way it ends: normal end of the module,
\* uncaught exception, parser.error(), help.
ExitCode(t) ==
    CASE t = "executed" -> 0
      [] t = "aborted"  -> 1
      [] t = "help"     -> 0
      [] t = "usage"    -> 2
      [] OTHER          -> -1

\* What is kept of a finished invocation.
Record(a, r, t, err) ==
    [ argv |-> a, args |-> r, nop |-> nop, profile |-> profile, plan |-> plan,
      log |-> log, ran |-> ran, completed |-> completed, error |-> err,
      terminal |-> t, exitcode |-> ExitCode(t), before |-> before, after |-> installed ]

\* The process ends in way t.
Exit(t, err) ==
    /\ pc' = "done"
    /\ terminal' = t
    /\ error' = err
    /\ exitcode' = ExitCode(t)
    /\ history' = Append(history, Record(argv, args, t, err))

Actions == Flatten(plan)

(***************************************************************************)
(* Steps                                                                   *)
(***************************************************************************)

\* args = parser.parse_args(): a usage error or a help request ends the process.
ParseArgs ==
    /\ pc = "start"
    /\ \E a \in Argvs :
        LET r == parse_args(a)
            t == IF r.status = "help" THEN "help" ELSE "usage"
        IN
        /\ argv' = a
        /\ args' = r
        /\ IF r.status = "ok"
           THEN /\ pc' = "parsed"
                /\ UNCHANGED << terminal, error, exitcode, history >>
           ELSE /\ pc' = "done"
                /\ terminal' = t
                /\ exitcode' = ExitCode(t)
                /\ history' = Append(history, Record(a, r, t, "none"))
                /\ UNCHANGED error
    /\ UNCHANGED << host, installed, run, nop, profile, plan, idx, running, log, ran,
                    completed, failed, before >>

\* RedisModuleRSSetup(args): the object is built for the detected host.
Construct ==
    /\ pc = "parsed"
    /\ nop' = RedisModuleRSSetup_init(args)
    /\ profile' = detect_host(host)
    /\ plan' = build_plan(profile')
    /\ pc' = "setup"
    /\ UNCHANGED << host, installed, run, argv, args, idx, running, log, ran, completed,
                    failed, error, terminal, exitcode, before, history >>

\* No-op mode: the next action is recorded and nothing is executed.
WouldRun ==
    /\ pc = "setup"
    /\ SkipsExecution(nop)
    /\ idx < Len(Actions)
    /\ log' = Append(log, Actions[idx + 1])
    /\ idx' = idx + 1
    /\ UNCHANGED << host, installed, run, pc, argv, args, nop, profile, plan, running,
                    ran, completed, failed, error, terminal, exitcode, before, history >>

\* Execute mode: the next action is launched.
Begin ==
    /\ pc = "setup"
    /\ ~SkipsExecution(nop)
    /\ ~running
    /\ idx < Len(Actions)
    /\ running' = TRUE
    /\ ran' = Append(ran, Actions[idx + 1])
    /\ UNCHANGED << host, installed, run, pc, argv, args, nop, profile, plan, idx, log,
                    completed, failed, error, terminal, exitcode, before, history >>

\* The launched action returns status 0: the next statement is reached.
Complete ==
    /\ pc = "setup"
    /\ running
    /\ ~Raises(0)
    /\ running' = FALSE
    /\ completed' = Append(completed, Actions[idx + 1])
    /\ installed' = installed \cup {Actions[idx + 1]}
    /\ idx' = idx + 1
    /\ UNCHANGED << host, run, pc, argv, args, nop, profile, plan, log, ran, failed,
                    error, terminal, exitcode, before, history >>

\* Variant: the failure is caught inside the phase method and the run goes on.
FailAndContinue ==
    /\ pc = "setup"
    /\ running
    /\ running' = FALSE
    /\ failed' = failed \cup {Actions[idx + 1]}
    /\ idx' = idx + 1
    /\ UNCHANGED << host, installed, run, pc, argv, args, nop, profile, plan, log, ran,
                    completed, error, terminal, exitcode, before, history >>

\* The launched action returns a non-zero status: the error leaves the phase
\* method, setup() and the module, and the process ends.
Fail ==
    /\ pc = "setup"
    /\ running
    /\ \E rc \in {1, 2} :
        /\ Raises(rc)
        /\ running' = FALSE
        /\ failed' = failed \cup {Actions[idx + 1]}
        /\ Exit("aborted", Actions[idx + 1])
    /\ UNCHANGED << host, installed, run, argv, args, nop, profile, plan, idx, log, ran,
                    completed, before >>

\* The last phase method has returned: setup() returns and the module ends.
Finish ==
    /\ pc = "setup"
    /\ ~running
    /\ idx = Len(Actions)
    /\ Exit("executed", "none")
    /\ UNCHANGED << host, installed, run, argv, args, nop, profile, plan, idx, running,
                    log, ran, completed, failed, before >>

\* The script is invoked again on the same host.
NextRun ==
    /\ pc = "done"
    /\ run < MaxRuns
    /\ run' = run + 1
    /\ pc' = "start"
    /\ argv' = << >>
    /\ args' = NoArgs
    /\ nop' = FALSE
    /\ profile' = NoProfile
    /\ plan' = << >>
    /\ idx' = 0
    /\ running' = FALSE
    /\ log' = << >>
    /\ ran' = << >>
    /\ completed' = << >>
    /\ failed' = {}
    /\ error' = "none"
    /\ terminal' = "none"
    /\ exitcode' = -1
    /\ before' = installed
    /\ UNCHANGED << host, installed, history >>

Next ==
    \/ ParseArgs
    \/ Construct
    \/ WouldRun
    \/ Begin
    \/ Complete
    \/ Fail
    \/ Finish
    \/ NextRun

Spec == Init /\ [][Next]_vars

(***************************************************************************)
(* Properties                                                              *)
(***************************************************************************)

Range(q) == { q[i] : i \in DOMAIN q }

Prefix(q, n) == SubSeq(q, 1, n)

Pos(q, x) == CHOOSE i \in DOMAIN q : q[i] = x

CountPhase(p, name) == Cardinality({ i \in DOMAIN p : p[i].name = name })

\* The run has a plan: the command line was accepted and the object built.
Planned == pc \in {"setup", "done"} /\ args.status = "ok"

\* Invocations that finished after walking the whole plan in no-op mode.
NopRuns == { i \in DOMAIN history : history[i].args.nop /\ history[i].terminal = "executed" }

PhaseRank(name) ==
    CASE name = "common_first" -> 1
      [] name = "common_last"  -> 3
      [] OTHER                 -> 2

\* C1: for every host family the plan a run follows holds common_first exactly
\* once, common_last exactly once and at most one family phase, which is the
\* phase of the detected family.
C1_PlanPhases ==
    Planned =>
        /\ profile.family \in Families \cup {"other"}
        /\ CountPhase(plan, "common_first") = 1
        /\ CountPhase(plan, "common_last") = 1
        /\ Cardinality({ i \in DOMAIN plan : plan[i].name \in FamilyPhases }) <= 1
        /\ \A i \in DOMAIN plan :
              plan[i].name \in FamilyPhases => plan[i].name = PhaseOf(profile.family)
        /\ \A i \in DOMAIN plan :
              plan[i].name \in FamilyPhases \cup {"common_first", "common_last"}

C1_Witness ==
    /\ pc = "done" /\ terminal = "executed"
    /\ profile.family = "redhat"
    /\ Len(plan) = 3 /\ plan[2].name = "redhat_compat"

\* C2: a run given the no-op flag launches no installer, pip install or
\* helper script and leaves the host state as it found it; it only records
\* the actions of the plan, and two such runs on the same host record the
\* same list.
C2_NoOpFrame ==
    /\ (args.status = "ok" /\ args.nop) =>
          /\ ran = << >> /\ ~running /\ completed = << >>
          /\ installed = before
          /\ pc \in {"setup", "done"} => log = Prefix(Actions, idx)
    /\ \A i \in NopRuns :
          /\ history[i].ran = << >>
          /\ history[i].after = history[i].before
          /\ history[i].log = Flatten(history[i].plan)
    /\ \A i, j \in NopRuns : history[i].log = history[j].log

C2_Witness ==
    /\ Len(history) = 2
    /\ NopRuns = {1, 2}
    /\ Len(history[1].log) >= 7
    /\ history[1].log = history[2].log

\* C3: in execute mode an action that returns a non-zero status ends the run
\* with an ActionError naming that action; it is the last action launched,
\* every action before it completed once, and none after it is launched.
C3_FailFast ==
    /\ failed # {} =>
          /\ pc = "done" /\ terminal = "aborted" /\ ~running
          /\ failed = {error}
          /\ ran = Prefix(Actions, idx + 1)
          /\ ran[Len(ran)] = error
          /\ completed = Prefix(Actions, idx)
    /\ \A i \in DOMAIN history :
          history[i].error # "none" =>
              LET h == history[i] IN
              /\ ~h.args.nop
              /\ h.terminal = "aborted"
              /\ Len(h.ran) >= 1
              /\ h.ran = Prefix(Flatten(h.plan), Len(h.ran))
              /\ h.ran[Len(h.ran)] = h.error
              /\ h.completed = Prefix(h.ran, Len(h.ran) - 1)

C3_Witness ==
    /\ pc = "done" /\ terminal = "aborted"
    /\ error = "run bin/getrust"
    /\ Len(ran) = 5 /\ Len(ran) < Len(Actions)

\* The way a finished run ended, as the claim C4 describes it.
TwoTerminalStates ==
    /\ terminal \in {"executed", "aborted"}
    /\ terminal = "executed" =>
          /\ idx = Len(Actions) /\ failed = {}
          /\ ~args.nop => completed = Actions
    /\ terminal = "aborted" => failed # {}
    /\ exitcode = 0 <=> terminal = "executed"
    /\ failed # {} => exitcode # 0

\* C4 as stated: every run ends either with the plan fully executed or
\* aborted at the first action failure, and exits 0 exactly when the whole
\* plan executed.
C4_Original == pc = "done" => TwoTerminalStates

\* C4 (amended): every run whose command line is accepted (no usage error, no
\* help request) ends either with the plan fully executed or aborted at the
\* first action failure; it exits 0 exactly when the whole plan executed and
\* non-zero whenever an action failed.
C4_ExitCode == (pc = "done" /\ args.status = "ok") => TwoTerminalStates

C4_Witness ==
    /\ pc = "done" /\ args.status = "ok" /\ ~args.nop
    /\ terminal = "aborted" /\ exitcode = 1
    /\ Len(history) = 2 /\ history[1].terminal = "executed" /\ history[1].exitcode = 0

\* C6 as stated: a run given --no-op or -n is in no-op mode and exits 0.
C6_Original ==
    (pc = "done" /\ argv \in { <<TokNoOp>>, <<OptN>> }) =>
        /\ args.status = "ok" /\ nop
        /\ exitcode = 0

\* C6 (amended): a run given --nop or -n is in no-op mode on every host and
\* exits 0 without launching any action, whatever the actions would return.
C6_NopExitsZero ==
    /\ (pc \in {"setup", "done"} /\ argv \in { <<OptNop>>, <<OptN>> }) =>
          /\ args.status = "ok" /\ nop /\ ran = << >>
    /\ (pc = "done" /\ argv \in { <<OptNop>>, <<OptN>> }) =>
          /\ terminal = "executed" /\ exitcode = 0

C6_Witness ==
    /\ pc = "done" /\ argv = <<OptNop>> /\ exitcode = 0
    /\ Len(history) = 2 /\ history[1].terminal = "aborted"

DebianPlan ==
    << "install_downloaders", "install git", "run bin/enable-utf8",
       "run bin/getclang --modern", "run bin/getrust", "run bin/getcmake --usr",
       "run bin/getgcc", "pip_install toml" >>

\* C7: on a Debian-family x86_64 host the profile is family debian, arch
\* non-arm, and the plan is the six common_first actions, then getgcc, then
\* pip install toml, and nothing else.
C7_DebianPlan ==
    (Planned /\ host.os = "debian" /\ host.machine = "x86_64") =>
        /\ profile.family = "debian" /\ profile.arch = "non-arm"
        /\ [i \in DOMAIN plan |-> plan[i].name]
              = << "common_first", "debian_compat", "common_last" >>
        /\ Actions = DebianPlan
        /\ (terminal = "executed" /\ ~args.nop) => ran = DebianPlan /\ completed = DebianPlan
        /\ (terminal = "executed" /\ args.nop) => log = DebianPlan

C7_Witness ==
    /\ host.os = "debian" /\ host.machine = "x86_64"
    /\ pc = "done" /\ terminal = "executed" /\ ~args.nop
    /\ Len(completed) = 8

\* C8: on a host whose OS family is not recognized the run is not aborted by
\* detection: the family is "other", there is no family phase, and the run
\* performs common_first followed by common_last; only an action failure
\* aborts it.
C8_UnrecognizedHost ==
    (Planned /\ DetectionError(host)) =>
        /\ profile.family = "other"
        /\ [i \in DOMAIN plan |-> plan[i].name] = << "common_first", "common_last" >>
        /\ Actions = common_first(host.osnick) \o common_last
        /\ pc = "done" => terminal \in {"executed", "aborted"}
        /\ terminal = "aborted" => failed # {} /\ error \in Range(Actions)
        /\ (terminal = "executed" /\ ~args.nop) => completed = Actions

C8_Witness ==
    /\ DetectionError(host)
    /\ pc = "done" /\ terminal = "executed" /\ ~args.nop
    /\ Len(completed) = 7

\* C9: actions run one at a time in plan order: an action is launched only
\* when every earlier one has completed, a phase starts only when the phases
\* before it have completed, and getrust is launched only after
\* getclang --modern has completed.
C9_Sequential ==
    Planned =>
        /\ ran = Prefix(Actions, Len(ran))
        /\ completed = Prefix(Actions, Len(completed))
        /\ Len(ran) = Len(completed) + (IF running \/ failed # {} THEN 1 ELSE 0)
        /\ \A i \in DOMAIN ran : \A j \in DOMAIN Actions :
              PhaseRank(PhaseTags(plan)[j]) < PhaseRank(PhaseTags(plan)[i])
                  => j <= Len(completed)
        /\ "run bin/getrust" \in Range(ran) => "run bin/getclang --modern" \in Range(completed)

C9_Witness ==
    /\ pc = "setup" /\ running
    /\ ran[Len(ran)] = "run bin/getrust"
    /\ "run bin/getclang --modern" \in Range(completed)

\* The tar install of common_first, in a state.
TarOnlyOnOl8 ==
    Planned =>
        LET cf == plan[1].actions IN
        /\ plan[1].name = "common_first"
        /\ "install tar" \in Range(cf) <=> host.osnick = "ol8"
        /\ host.osnick = "ol8" =>
              /\ Pos(cf, "install tar") = Pos(cf, "run bin/getrust") + 1
              /\ Pos(cf, "run bin/getcmake --usr") = Pos(cf, "install tar") + 1
              /\ "run bin/getcmake --usr" \in Range(ran) => "install tar" \in Range(completed)
        /\ host.osnick # "ol8" => "install tar" \notin Range(ran) \cup Range(log)

\* C10: common_first installs tar if and only if the osnick is ol8, right
\* after getrust and right before getcmake --usr, so that on ol8 getcmake is
\* launched only once tar is installed; and no step changes the host profile.
C10_TarOnOl8 ==
    /\ []TarOnlyOnOl8
    /\ [][host' = host /\ (pc = "setup" => profile' = profile)]_vars

C10_Witness ==
    /\ host.osnick = "ol8" /\ ~args.nop /\ pc = "setup"
    /\ "run bin/getcmake --usr" \in Range(ran)
    /\ "install tar" \in Range(completed)

====
